---- MODULE Spec2Model ----
(***************************************************************************)
(* A model of the job-agent control loop (tools/agent.py): the response    *)
(* parser, the context window manager, the operation registry with its     *)
(* handlers, and run_agent's reason-act-observe loop.                      *)
(*                                                                         *)
(* Text is modelled as a sequence of pieces.  A piece [t, n] stands for    *)
(* the first n characters of the literal text t; a slice of a string cuts  *)
(* the piece it ends in, so lengths and slices are those of the program.   *)
(***************************************************************************)
EXTENDS Integers, Sequences, FiniteSets, TLC

VARIABLES
    text,        \* parser: the raw reasoning text handed to parse_response
    parsed,      \* parser: what parse_response did with it
    ppc,         \* parser: "input" before the call, "parsed" after it
    conv,        \* context manager: the conversation handed to truncate_messages
    bounded,     \* context manager: the conversation it returned
    tpc,         \* context manager: "input" before the call, "bounded" after it
    pc,          \* run_agent: "loop", "finished", "capped", "returned", "crashed"
    iteration,   \* run_agent: loop bodies entered so far
    state,       \* run_agent: the AgentState
    messages,    \* run_agent: the conversation
    calls,       \* number of chat_completion_multi calls made so far
    exit,        \* how the loop was left: "none", "finish", "cap", "exception"
    last,        \* what the latest pass through the loop body did
    before,      \* AgentState, conversation and counters as that pass found them
    hst,         \* handlers: the AgentState a handler is called with
    hcall,       \* handlers: the call (name, params, what its stage and the human do)
    hres,        \* handlers: what the handler returned or raised, and the state it left
    hpc,         \* handlers: "input" before the call, "returned" after it
    now,         \* failover: time.time()
    keys,        \* failover: the providers with a credential in the environment
    behaviour,   \* failover: how each configured provider answers requests
    cooldowns,   \* failover: _provider_cooldowns
    fpc,         \* failover: "idle", "loop" (line 226), "try" (line 257), "done"
    ncalls,      \* failover: calls of _call_with_failover begun so far
    start,       \* failover: total_wait_start
    last_failed, \* failover: last_failed_provider ("" for None)
    cur,         \* failover: provider_name
    attempt,     \* failover: attempt
    result,      \* failover: how the call ended
    flast,       \* failover: the latest step of the call
    cd0,         \* failover: _provider_cooldowns as the call found it
    requested,   \* failover: providers sent a request during the call
    failed       \* failover: providers that have answered a request with a failure

pvars == <<text, parsed, ppc>>
tvars == <<conv, bounded, tpc>>
lvars == <<pc, iteration, state, messages, calls, exit, last, before>>
hvars == <<hst, hcall, hres, hpc>>
fvars == <<now, keys, behaviour, cooldowns, fpc, ncalls, start, last_failed, cur,
           attempt, result, flast, cd0, requested, failed>>
vars == <<pvars, tvars, lvars, hvars, fvars>>

-----------------------------------------------------------------------------
(* Strings *)

P(t, n) == [t |-> t, n |-> n]

StrLen(s) ==
    LET f[i \in 0..Len(s)] == IF i = 0 THEN 0 ELSE f[i - 1] + s[i].n
    IN f[Len(s)]

\* Python's s[:k], k >= 0.
RECURSIVE Take(_, _)
Take(s, k) ==
    IF k <= 0 \/ s = <<>> THEN <<>>
    ELSE IF Head(s).n <= k THEN <<Head(s)>> \o Take(Tail(s), k - Head(s).n)
    ELSE <<P(Head(s).t, k)>>

MinOf(S) == CHOOSE x \in S : \A y \in S : x <= y
MaxOf(S) == CHOOSE x \in S : \A y \in S : x >= y

\* Index of the first piece at or after `from` that is in S (FirstIn) or
\* is not in S (FirstNotIn), 0 if none.
FirstIn(s, from, S) ==
    LET I == {i \in from..Len(s) : s[i] \in S}
    IN IF I = {} THEN 0 ELSE MinOf(I)

FirstNotIn(s, from, S) ==
    LET I == {i \in from..Len(s) : s[i] \notin S}
    IN IF I = {} THEN 0 ELSE MinOf(I)

WS == {P(" ", 1), P("<nl>", 1)}
IsWs(p) == p \in WS
NotWs(p) == p \notin WS

\* Python's s.strip().
Strip(s) ==
    LET I == {i \in 1..Len(s) : NotWs(s[i])}
    IN IF I = {} THEN <<>> ELSE SubSeq(s, MinOf(I), MaxOf(I))

-----------------------------------------------------------------------------
(* The operation registry: TOOLS *)

ToolNames ==
    {"scrape_jobs", "parse_jobs", "score_jobs", "select_jobs", "analyze_jobs",
     "generate_documents", "generate_report", "read_file", "evaluate_document",
     "read_search_filters", "propose_filter_changes", "list_applications",
     "check_in", "finish"}

NeedsApproval(name) ==
    name \in {"scrape_jobs", "select_jobs", "analyze_jobs",
              "generate_documents", "propose_filter_changes"}

NameLen(name) ==
    CASE name = "scrape_jobs" -> 11
      [] name = "parse_jobs" -> 10
      [] name = "score_jobs" -> 10
      [] name = "select_jobs" -> 11
      [] name = "analyze_jobs" -> 12
      [] name = "generate_documents" -> 18
      [] name = "generate_report" -> 15
      [] name = "read_file" -> 9
      [] name = "evaluate_document" -> 17
      [] name = "read_search_filters" -> 19
      [] name = "propose_filter_changes" -> 22
      [] name = "list_applications" -> 17
      [] name = "check_in" -> 8
      [] name = "finish" -> 6
      [] OTHER -> 5

Word(name) == P(name, NameLen(name))

-----------------------------------------------------------------------------
(* The pieces reasoning text is made of *)

LblAction == P("Action:", 7)
LblInput == P("Action Input:", 13)
Space == P(" ", 1)
Newline == P("<nl>", 1)

\* JSON texts and what json.loads makes of each.
JsonEmptyObj == P("{}", 2)
JsonSummary == P("{\"summary\":\"s\"}", 15)
JsonList == P("[1]", 3)
\* 995 opening brackets: the nesting at which CPython's json scanner gives up.
JsonDeep == P("[[[[...", 995)
JsonFallbackMsg ==
    P("{\"message\": \"My reasoning LLM hit an error. How should I proceed?\"}", 67)

EmptyDict == [k \in {} |-> <<>>]
Dict(d) == [kind |-> "dict", d |-> d]
NonDict(kind) == [kind |-> kind, d |-> EmptyDict]

IsObjectText(p) == p \in {JsonEmptyObj, JsonSummary, JsonFallbackMsg}

JsonValue(p) ==
    CASE p = JsonEmptyObj -> Dict(EmptyDict)
      [] p = JsonSummary -> Dict([summary |-> <<P("s", 1)>>])
      [] p = JsonFallbackMsg ->
            Dict([message |->
                  <<P("My reasoning LLM hit an error. How should I proceed?", 52)>>])
      [] p = JsonList -> NonDict("list")

\* json.loads(s): the decoded value, a JSONDecodeError, or the RecursionError
\* the scanner raises on nesting it cannot follow.
JsonLoads(s) ==
    IF s = <<>> THEN [exc |-> "JSONDecodeError", val |-> Dict(EmptyDict)]
    ELSE IF s[1] = JsonDeep THEN [exc |-> "RecursionError", val |-> Dict(EmptyDict)]
    ELSE IF Len(s) = 1 /\ (IsObjectText(s[1]) \/ s[1] = JsonList)
         THEN [exc |-> "none", val |-> JsonValue(s[1])]
    ELSE [exc |-> "JSONDecodeError", val |-> Dict(EmptyDict)]

-----------------------------------------------------------------------------
(* parse_response *)

\* re.search(r"Action:\s*(\S+)", text): the run of non-blank characters after
\* the first "Action:" label and the blanks that follow it; <<>> if no match.
\* A run stops inside an "Action Input:" label, after its first word.
RunStops == WS \cup {LblInput}

ActionMatch(s) ==
    LET a == FirstIn(s, 1, {LblAction})
        j == IF a = 0 THEN 0 ELSE FirstNotIn(s, a + 1, WS)
        k == IF j = 0 THEN 0 ELSE FirstIn(s, j, RunStops)
    IN IF j = 0 THEN <<>>
       ELSE IF k = 0 THEN SubSeq(s, j, Len(s))
       ELSE IF s[k] = LblInput THEN SubSeq(s, j, k - 1) \o <<P("Action Input:", 6)>>
       ELSE SubSeq(s, j, k - 1)

\* `action in TOOLS`: the run is exactly one registered name.
InTools(run) == Len(run) = 1 /\ run[1].t \in ToolNames /\ run[1] = Word(run[1].t)

\* re.search(r"Action Input:\s*(.+)", text, re.DOTALL), group(1).strip();
\* matched is FALSE when nothing follows the first label.
InputMatch(s) ==
    LET i == FirstIn(s, 1, {LblInput})
    IN IF i = 0 \/ i = Len(s) THEN [matched |-> FALSE, raw |-> <<>>]
       ELSE [matched |-> TRUE, raw |-> Strip(SubSeq(s, i + 1, Len(s)))]

\* re.search(r"\{.*\}", raw_input, re.DOTALL): from the first brace to the last.
BraceMatch(raw) ==
    LET I == {i \in 1..Len(raw) : IsObjectText(raw[i])}
    IN IF I = {} THEN <<>> ELSE SubSeq(raw, MinOf(I), MaxOf(I))

\* Lines 497-510: the parameter bag, or the exception that escapes.
ParseParams(s) ==
    LET m == InputMatch(s)
        first == JsonLoads(m.raw)
        inner == BraceMatch(m.raw)
        second == JsonLoads(inner)
    IN IF ~m.matched THEN [exc |-> "none", val |-> Dict(EmptyDict)]
       ELSE IF first.exc = "none" THEN first
       ELSE IF first.exc = "RecursionError" THEN first
       ELSE IF inner = <<>> THEN [exc |-> "none", val |-> Dict(EmptyDict)]
       ELSE IF second.exc = "JSONDecodeError"
            THEN [exc |-> "none", val |-> Dict(EmptyDict)]
       ELSE second

FallbackPrefix == P("I couldn't determine my next action. My response was: ", 54)

\* Lines 512-518.
FallbackParams(s) == Dict([message |-> <<FallbackPrefix>> \o Take(s, 300)])

\* parse_response(text) -> (thought, action, params).  The thought is only
\* printed and is left out.  raised names the exception that escapes, if any.
parse_response(s) ==
    LET run == ActionMatch(s)
        pp == ParseParams(s)
    IN IF pp.exc # "none"
       THEN [raised |-> pp.exc, action |-> "", params |-> Dict(EmptyDict)]
       ELSE IF ~InTools(run)
       THEN [raised |-> "none", action |-> "check_in", params |-> FallbackParams(s)]
       ELSE [raised |-> "none", action |-> run[1].t, params |-> pp.val]

\* The parser's result before any call.
NotParsed == [raised |-> "none", action |-> "", params |-> Dict(EmptyDict)]

-----------------------------------------------------------------------------
(* truncate_messages *)

MAX_CONTEXT_CHARS == 12000

\* A turn is a dict {"role", "content"}; id names the dict object, since
\* run_agent later assigns to messages[0]["content"] in place.
Msg(id, role, content) == [id |-> id, role |-> role, content |-> content]

TotalChars(msgs) ==
    LET f[i \in 0..Len(msgs)] ==
            IF i = 0 THEN 0 ELSE f[i - 1] + StrLen(msgs[i].content)
    IN f[Len(msgs)]

\* Python's messages[-k:].
LastTurns(msgs, k) ==
    IF Len(msgs) <= k THEN msgs ELSE SubSeq(msgs, Len(msgs) - k + 1, Len(msgs))

TrimNotice ==
    Msg(-1, "user",
        <<P("[Earlier conversation was trimmed to save context. The agent has been working through the pipeline steps. Recent history follows.]", 130)>>)

\* The comparison of line 533 off by one.
OverBudgetLt(total, max_chars) == total >= max_chars

\* Line 533 negated: `if total <= max_chars: return messages`.
OverBudget(total, max_chars) == total > max_chars

\* Lines 542-547 with the notice put after the first of the recent turns (mutant).
truncate_messagesNoticeInside(msgs) ==
    IF msgs = <<>> THEN msgs
    ELSE IF ~OverBudget(TotalChars(msgs), MAX_CONTEXT_CHARS) THEN msgs
    ELSE IF msgs[1].role = "system"
    THEN <<msgs[1], Head(LastTurns(msgs, 6)), TrimNotice>> \o Tail(LastTurns(msgs, 6))
    ELSE LastTurns(msgs, 6)

truncate_messages(msgs) ==
    IF msgs = <<>> THEN msgs
    ELSE IF ~OverBudget(TotalChars(msgs), MAX_CONTEXT_CHARS) THEN msgs
    ELSE LET recent == LastTurns(msgs, 6)
         IN IF msgs[1].role = "system"
            THEN <<msgs[1], TrimNotice>> \o recent
            ELSE recent

-----------------------------------------------------------------------------
(* AgentState, the system prompt and the tool wrappers *)

\* Python's str(n) and str(b).
Num(n) == P(ToString(n), IF n < 10 THEN 1 ELSE IF n < 100 THEN 2 ELSE 3)
Bool(b) == IF b THEN P("True", 4) ELSE P("False", 5)

\* AgentState(resume_path=..., has_profile=...); the two paths never change.
AgentState(has_profile, resume) ==
    [jobs_scraped |-> 0, jobs_parsed |-> 0, jobs_scored |-> 0,
     jobs_selected |-> 0, jobs_analyzed |-> 0, jobs_generated |-> 0,
     report_generated |-> FALSE, has_profile |-> has_profile,
     resume |-> resume, errors |-> <<>>]

\* The fixed text of the prompt (rules and tool descriptions) followed by the
\* values of its "Current State" block.
build_system_prompt(st) ==
    <<P("<system prompt>", 3514),
      Num(st.jobs_scraped), Num(st.jobs_parsed), Num(st.jobs_scored),
      Num(st.jobs_selected), Num(st.jobs_analyzed), Num(st.jobs_generated),
      Bool(st.report_generated), Bool(st.has_profile), Bool(st.resume),
      Num(Len(st.errors))>>

\* What a handler did: the observation it returned, or the exception it let
\* escape (obs is then <<>>), and the AgentState it left.
Returned(st, obs) == [raised |-> "none", st |-> st, obs |-> obs]
Escaped(st, exc) == [raised |-> exc, st |-> st, obs |-> <<>>]

\* What the world does to a handler.  A pipeline stage returns n items
\* ("items"), or raises ("exc"); "io" is a file the handler reads itself
\* being absent or unreadable.
Items(n) == [k |-> "items", n |-> n]
StageRaises == [k |-> "exc", n |-> 0]
IoFails == [k |-> "io", n |-> 0]

ErrText == P("<str(e)>", 24)

IsDict(params) == params.kind = "dict"
HasKey(params, key) == key \in DOMAIN params.d

RecordError(st) == [st EXCEPT !.errors = Append(@, <<ErrText>>)]

tool_scrape_jobs(st, params, out) ==
    IF ~IsDict(params) THEN Escaped(st, "AttributeError")
    ELSE IF out.k = "items"
    THEN Returned([st EXCEPT !.jobs_scraped = out.n],
                  IF out.n = 0
                  THEN <<P("Scrape completed but returned 0 jobs. The API may be rate-limiting or the search is too narrow.", 95)>>
                  ELSE <<P("Scraped ", 8), Num(out.n),
                         P(" jobs and saved to .tmp/raw_jobs.json.", 38)>>)
    ELSE Returned(RecordError(st), <<P("Scrape failed: ", 15), ErrText>>)

\* open(state.search_config_path) at line 84 is outside the try block.
tool_parse_jobs(st, params, out) ==
    IF out.k = "io" THEN Escaped(st, "FileNotFoundError")
    ELSE IF out.k = "items"
    THEN Returned([st EXCEPT !.jobs_parsed = out.n],
                  IF out.n = 0
                  THEN <<P("Parsing complete but 0 jobs remained after filtering. Filters may be too strict.", 80)>>
                  ELSE <<P("Parsed and filtered: ", 21), Num(out.n),
                         P(" jobs remain (from ", 19), Num(st.jobs_scraped),
                         P(" raw).", 6)>>)
    ELSE Returned(RecordError(st), <<P("Parse failed: ", 14), ErrText>>)

JobLines(n) == [i \in 1..n |-> P("<nl>  i. [score%] title at company", 40)]

tool_score_jobs(st, params, out) ==
    IF ~st.has_profile
    THEN Returned(st, <<P("Cannot score - no user profile loaded. Use resume-only mode or create a profile.", 80)>>)
    ELSE IF out.k = "items"
    THEN Returned([st EXCEPT !.jobs_scored = out.n],
                  IF out.n = 0
                  THEN <<P("Scoring complete but produced no results.", 41)>>
                  ELSE <<P("Scored ", 7), Num(out.n), P(" jobs. Top matches:", 19)>>
                       \o JobLines(out.n)
                       \o <<P("<nl><nl>Distribution: a jobs >=70%, b >=50%, c >=35%", 43)>>)
    ELSE Returned(RecordError(st), <<P("Scoring failed: ", 16), ErrText>>)

tool_analyze_jobs(st, params, out) ==
    IF ~IsDict(params) THEN Escaped(st, "AttributeError")
    ELSE IF out.k = "items"
    THEN Returned([st EXCEPT !.jobs_analyzed = out.n],
                  <<P("Analyzed ", 9), Num(out.n),
                    P(" jobs with LLM. Enriched data saved to .tmp/analyzed_jobs.json.", 63)>>)
    ELSE Returned(RecordError(st), <<P("Analysis failed: ", 17), ErrText>>)

tool_generate_documents(st, params, out) ==
    IF ~IsDict(params) THEN Escaped(st, "AttributeError")
    ELSE IF out.k = "items"
    THEN Returned([st EXCEPT !.jobs_generated = out.n],
                  <<P("Generated application documents for ", 36), Num(out.n),
                    P(" job(s). Files in output/applications/.", 39)>>)
    ELSE Returned(RecordError(st), <<P("Document generation failed: ", 28), ErrText>>)

tool_generate_report(st, params, out) ==
    IF ~st.has_profile
    THEN Returned(st, <<P("Cannot generate report - no user profile for skill gap analysis.", 64)>>)
    ELSE IF out.k = "items"
    THEN Returned([st EXCEPT !.report_generated = TRUE],
                  <<P("Summary report generated at output/summary_report.md.", 53)>>)
    ELSE Returned(RecordError(st), <<P("Report generation failed: ", 26), ErrText>>)

\* With a path: the file is absent ("io"), unreadable ("exc"), or read and
\* cut to 4000 characters.
tool_read_file(st, params, out) ==
    IF ~IsDict(params) THEN Escaped(st, "AttributeError")
    ELSE IF ~HasKey(params, "path")
    THEN Returned(st, <<P("Error: 'path' parameter is required.", 36)>>)
    ELSE IF out.k = "io"
    THEN Returned(st, <<P("File not found: ", 16)>> \o params.d["path"])
    ELSE IF out.k = "exc"
    THEN Returned(st, <<P("Error reading file: ", 20), ErrText>>)
    ELSE Returned(st, <<P("<file content>", 4000),
                        P("<nl>... [truncated, file is longer]", 32)>>)

tool_evaluate_document(st, params, out) ==
    IF ~IsDict(params) THEN Escaped(st, "AttributeError")
    ELSE IF ~HasKey(params, "path")
    THEN Returned(st, <<P("Document not found: ", 20)>>)
    ELSE IF out.k = "io"
    THEN Returned(st, <<P("Document not found: ", 20)>> \o params.d["path"])
    ELSE IF out.k = "exc"
    THEN Returned(st, <<P("Evaluation failed: ", 19), ErrText>>)
    ELSE Returned(st, <<P("Evaluation of ", 14)>> \o params.d["path"]
                      \o <<P(":<nl>", 2), P("<evaluation>", 200)>>)

tool_read_search_filters(st, params, out) ==
    IF out.k = "io" THEN Returned(st, <<P("Search filters file not found.", 30)>>)
    ELSE IF out.k = "exc"
    THEN Returned(st, <<P("Error reading search filters: ", 30), ErrText>>)
    ELSE Returned(st, <<P("Current search filters:<nl>", 24), P("<yaml>", 300)>>)

\* With changes: the filters cannot be read ("io"), or the human is asked
\* and the file rewritten; a failed write ("exc") is outside any try block.
\* confirm is the line the human types at line 259, stripped and lowered.
tool_propose_filter_changes(st, params, out, confirm) ==
    IF ~IsDict(params) THEN Escaped(st, "AttributeError")
    ELSE IF ~HasKey(params, "changes")
    THEN Returned(st, <<P("No changes proposed.", 20)>>)
    ELSE IF out.k = "io"
    THEN Returned(st, <<P("Could not read current filters.", 31)>>)
    ELSE IF confirm # <<P("y", 1)>>
    THEN Returned(st, <<P("User rejected the proposed filter changes.", 42)>>)
    ELSE IF out.k = "exc" THEN Escaped(st, "OSError")
    ELSE Returned(st, <<P("Filter changes applied. You should re-scrape and re-score with the new filters.", 79)>>)

tool_list_applications(st, params, out) ==
    IF out.k = "io" THEN Returned(st, <<P("No applications directory found.", 32)>>)
    ELSE IF out.n = 0 THEN Returned(st, <<P("Applications directory is empty.", 32)>>)
    ELSE Returned(st, <<P("Generated applications:", 23)>>
                      \o [i \in 1..out.n |-> P("<nl>  folder/  (files)", 40)])

\* json.load(f) at line 295 and the write at line 305 are outside any try
\* block: a corrupt or unwritable file ("exc") escapes.
tool_select_jobs(st, params, out) ==
    IF ~IsDict(params) THEN Escaped(st, "AttributeError")
    ELSE IF out.k = "io"
    THEN Returned(st, <<P("No scored jobs found. Run scoring first.", 40)>>)
    ELSE IF out.k = "exc" THEN Escaped(st, "JSONDecodeError")
    ELSE Returned([st EXCEPT !.jobs_selected = out.n],
                  IF out.n = 0
                  THEN <<P("No jobs scoring >=", 17), P("35.0", 4),
                         P("%. Try lowering the threshold.", 30)>>
                  ELSE <<P("Selected ", 9), Num(out.n),
                         P(" job(s) for application generation:", 35)>>
                       \o JobLines(out.n))

\* reply is what the human typed, stripped.
tool_check_in(st, params, reply) ==
    IF ~IsDict(params) THEN Escaped(st, "AttributeError")
    ELSE Returned(st, <<P("User responded: ", 16)>> \o reply)

tool_finish(st, params) ==
    IF ~IsDict(params) THEN Escaped(st, "AttributeError")
    ELSE Returned(st, <<P("FINISH: ", 8)>>
                      \o (IF HasKey(params, "summary") THEN params.d["summary"]
                          ELSE <<P("Pipeline complete.", 18)>>))

\* TOOLS[name]["fn"](state, params)
Invoke(name, st, params, out, confirm, reply) ==
    CASE name = "scrape_jobs" -> tool_scrape_jobs(st, params, out)
      [] name = "parse_jobs" -> tool_parse_jobs(st, params, out)
      [] name = "score_jobs" -> tool_score_jobs(st, params, out)
      [] name = "select_jobs" -> tool_select_jobs(st, params, out)
      [] name = "analyze_jobs" -> tool_analyze_jobs(st, params, out)
      [] name = "generate_documents" -> tool_generate_documents(st, params, out)
      [] name = "generate_report" -> tool_generate_report(st, params, out)
      [] name = "read_file" -> tool_read_file(st, params, out)
      [] name = "evaluate_document" -> tool_evaluate_document(st, params, out)
      [] name = "read_search_filters" -> tool_read_search_filters(st, params, out)
      [] name = "propose_filter_changes" ->
            tool_propose_filter_changes(st, params, out, confirm)
      [] name = "list_applications" -> tool_list_applications(st, params, out)
      [] name = "check_in" -> tool_check_in(st, params, reply)
      [] name = "finish" -> tool_finish(st, params)

-----------------------------------------------------------------------------
(* llm_client.py: provider selection and the failover engine.  Time is in   *)
(* whole seconds; "" stands for None where the code holds a provider name   *)

PRIORITY_ORDER == <<"sambanova", "cerebras", "groq", "gemini">>

PROVIDERS == {PRIORITY_ORDER[i] : i \in DOMAIN PRIORITY_ORDER}

display_name(name) ==
    CASE name = "sambanova" -> "SambaNova"
      [] name = "cerebras" -> "Cerebras"
      [] name = "groq" -> "Groq"
      [] OTHER -> "Gemini"

DEFAULT_COOLDOWN == [n \in PROVIDERS |-> IF n \in {"sambanova", "cerebras"} THEN 30 ELSE 60]

RETRIES_BEFORE_FAILOVER == 2

MAX_WAIT_TOTAL == 300

\* The fixed cooldowns of a provider out of retries on connection and API errors.
ConnCooldown == 30

ApiCooldown == 15

\* Lines 93-100 with the test of line 98 left out (mutant).
get_available_providersAny(k) == PRIORITY_ORDER

\* The providers with a credential, in priority order; k is the environment.
get_available_providers(k) == SelectSeq(PRIORITY_ORDER, LAMBDA n : n \in k)

\* _provider_cooldowns.get(name, 0)
CooldownOf(cds, name) == IF name \in DOMAIN cds THEN cds[name] ELSE 0

\* The check of line 105 with the cooldown ignored (mutant).
is_provider_availableAlways(cds, name, t) == TRUE

is_provider_available(cds, name, t) == t >= CooldownOf(cds, name)

\* The mutant of set_provider_cooldown that files the entry under the display name.
set_provider_cooldownByDisplay(cds, name, seconds, t) ==
    [n \in DOMAIN cds \cup {display_name(name)} |->
        IF n = display_name(name) THEN t + seconds ELSE cds[n]]

set_provider_cooldown(cds, name, seconds, t) ==
    [n \in DOMAIN cds \cup {name} |-> IF n = name THEN t + seconds ELSE cds[n]]

InSeq(s, x) == \E i \in DOMAIN s : s[i] = x

\* Lines 126-130 left out: the order is the priority order (mutant).
OrderedByPriority(k, exclude) == get_available_providers(k)

\* Lines 126-130: the just-failed provider goes last.
Ordered(k, exclude) ==
    IF exclude # "" /\ InSeq(get_available_providers(k), exclude)
    THEN SelectSeq(get_available_providers(k), LAMBDA n : n # exclude) \o <<exclude>>
    ELSE get_available_providers(k)

\* Lines 133-135: the first provider of the order that is out of cooldown, 0 for none.
FirstReady(ord, cds, t) ==
    IF \E i \in DOMAIN ord : is_provider_available(cds, ord[i], t)
    THEN MinOf({i \in DOMAIN ord : is_provider_available(cds, ord[i], t)})
    ELSE 0

\* Line 138 taking the head of the order instead of the minimum (mutant).
SoonestIsFirst(ord, cds) == ord[1]

\* Line 138: min() returns the first provider with the least timestamp.
Soonest(ord, cds) ==
    ord[MinOf({i \in DOMAIN ord :
        \A j \in DOMAIN ord : CooldownOf(cds, ord[i]) <= CooldownOf(cds, ord[j])})]

Selection(name, wait) == [name |-> name, wait |-> wait]

NoProvider == Selection("", 0)

next_available_provider(k, cds, exclude, t) ==
    IF get_available_providers(k) = <<>> THEN NoProvider
    ELSE IF FirstReady(Ordered(k, exclude), cds, t) # 0
    THEN Selection(Ordered(k, exclude)[FirstReady(Ordered(k, exclude), cds, t)], 0)
    ELSE Selection(Soonest(Ordered(k, exclude), cds),
                   MaxOf({0, CooldownOf(cds, Soonest(Ordered(k, exclude), cds)) - t}))

\* What a request can come back with; header is the retry-after header of a
\* rate-limit response: the seconds it holds, NoHeader when the response has
\* none, HttpDate when it holds a date, which float() does not parse.
NoHeader == -1000

HttpDate == -2000

Outcome(kind, header) == [kind |-> kind, header |-> header]

\* The advertised seconds taken as they are, without the buffer of line 366 (mutant).
get_retry_afterNoBuffer(header) == IF header \in {NoHeader, HttpDate} THEN 0 ELSE header

\* float(retry_after) + 1 when the header is there and is a number, 0 standing
\* for None.
get_retry_after(header) == IF header \in {NoHeader, HttpDate} THEN 0 ELSE header + 1

\* Line 270: retry_after or _DEFAULT_COOLDOWN[provider_name]
RateCooldown(name, header) ==
    IF get_retry_after(header) # 0 THEN get_retry_after(header) ELSE DEFAULT_COOLDOWN[name]

\* Line 228 with the start of the call forgotten (mutant).
ElapsedSinceEpoch(t, t0) == t

\* time.time() - total_wait_start
Elapsed(t, t0) == t - t0

\* Line 245 without the sleep (mutant).
SleepNone(wait) == 0

\* Lines 242-245: the seconds slept before the selected provider is tried.
SleepBefore(wait) == IF wait > 0 THEN wait + 2 ELSE 0

\* The engine between two steps of a call.
Engine(t, cds, lf, at, pos, res) ==
    [now |-> t, cooldowns |-> cds, last_failed |-> lf, attempt |-> at, fpc |-> pos, result |-> res]

\* A step of a call as an observer records it: a request (to whom, when it was
\* issued, the provider's available-again timestamp at that moment, how it came
\* back and with what retry-after header), a selection (who, when, the seconds
\* slept) or the end of the call.
Step(kind, to, at, slept, until, outcome, header) ==
    [kind |-> kind, to |-> to, at |-> at, slept |-> slept, until |-> until, outcome |-> outcome,
     header |-> header]

Ended(kind, by) == [kind |-> kind, by |-> by]

\* Lines 276-283 and 286-292: a retry after a sleep, or a cooldown and failover.
RetryOrCool(e, name, pause, seconds) ==
    IF e.attempt < RETRIES_BEFORE_FAILOVER - 1
    THEN Engine(e.now + pause, e.cooldowns, e.last_failed, e.attempt + 1, "try", e.result)
    ELSE Engine(e.now, set_provider_cooldown(e.cooldowns, name, seconds, e.now),
                name, e.attempt, "loop", e.result)

\* Lines 260-265: an empty response is retried once, then the loop restarts
\* with no cooldown set and the just-failed provider as it was.
EmptyResponse(e) ==
    IF e.attempt < RETRIES_BEFORE_FAILOVER - 1
    THEN Engine(e.now + 2, e.cooldowns, e.last_failed, e.attempt + 1, "try", e.result)
    ELSE Engine(e.now, e.cooldowns, e.last_failed, e.attempt, "loop", e.result)

\* Lines 268-273: a rate limit ends the tries of the provider at once.
RateLimited(e, name, header) ==
    Engine(e.now, set_provider_cooldown(e.cooldowns, name, RateCooldown(name, header), e.now),
           name, e.attempt, "loop", e.result)

\* A return that also forgets the cooldown of the provider that served (mutant).
SucceededForgetting(e, name) ==
    Engine(e.now, [n \in DOMAIN e.cooldowns \ {name} |-> e.cooldowns[n]], e.last_failed,
           e.attempt, "idle", Ended("text", name))

\* Line 266: the text is returned.
Succeeded(e, name) ==
    Engine(e.now, e.cooldowns, e.last_failed, e.attempt, "idle", Ended("text", name))

\* Exponent of the connection-error backoff, 2 ** (attempt + 1).
Pow2(n) == IF n = 0 THEN 1 ELSE IF n = 1 THEN 2 ELSE 4

\* Lines 258-292: what one request that came back with o does to the engine e,
\* e.now being the time the answer arrived.
Handle(e, name, o) ==
    CASE o.kind = "ok" -> Succeeded(e, name)
      [] o.kind = "empty" -> EmptyResponse(e)
      [] o.kind = "rate" -> RateLimited(e, name, o.header)
      [] o.kind = "conn" -> RetryOrCool(e, name, Pow2(e.attempt + 1), ConnCooldown)
      [] OTHER -> RetryOrCool(e, name, 2, ApiCooldown)
-----------------------------------------------------------------------------
(* run_agent *)

MAX_ITERATIONS == 30

\* The reasoning text run_agent substitutes when chat_completion_multi raises.
FallbackResponse ==
    <<P("Thought:", 8), Space, P("Reasoning LLM failed.", 21), Newline,
      LblAction, Space, Word("check_in"), Newline,
      LblInput, Space, JsonFallbackMsg>>

\* The reasoning call with no except clause around it.
ReasonReraises(llm) ==
    IF llm.failed THEN [raised |-> "LLMConfigError", response |-> <<>>]
    ELSE [raised |-> "none", response |-> llm.response]

\* Lines 613-621: the reasoning call inside try/except Exception.
Reason(llm) ==
    IF llm.failed THEN [raised |-> "none", response |-> FallbackResponse]
    ELSE [raised |-> "none", response |-> llm.response]

\* input(...).strip().lower()
Lower(p) ==
    CASE p.t = "Y" -> P("y", p.n)
      [] p.t = "YES" -> P("yes", p.n)
      [] p.t = "N" -> P("n", p.n)
      [] OTHER -> p
Normalize(ans) == LET s == Strip(ans) IN [i \in 1..Len(s) |-> Lower(s[i])]

\* A gate that takes every answer for a yes.
ApprovedAlways(ans) == TRUE

\* Line 646 negated: `if confirm != "y"` declines.
Approved(ans) == Normalize(ans) = <<P("y", 1)>>

\* Lines 653-655.
CutObservation(obs) ==
    IF StrLen(obs) > 3000
    THEN Take(obs, 3000) \o <<P("<nl>... [truncated]", 16)>>
    ELSE obs

\* The loop with line 610 left out.
RefreshSystemSkipped(msgs, st) == msgs

\* messages[0]["content"] = build_system_prompt(state): the assignment reaches
\* every place of the list that holds the same dict object.
RefreshSystem(msgs, st) ==
    [i \in 1..Len(msgs) |->
        IF msgs[i].id = msgs[1].id
        THEN [msgs[i] EXCEPT !.content = build_system_prompt(st)]
        ELSE msgs[i]]

\* Lines 575-603: the opening user turn.
InitialContext(mode, n, warn) ==
    <<P("Begin the pipeline. ", 20)>>
    \o (CASE mode = "force" ->
                <<P("The user requested a fresh scrape. Start with scrape_jobs.", 58)>>
          [] mode = "nocache" ->
                <<P("No valid cached data. Start with scrape_jobs.", 45)>>
          [] mode = "cached" ->
                <<P("Cached scrape data found (", 26), Num(n),
                  P(" jobs, less than 24h old). You can skip scraping or re-scrape if needed.", 72)>>
          [] mode = "skip" ->
                <<P("Scraping is skipped - using cached raw_jobs.json (", 50), Num(n),
                  P(" jobs). Start with parse_jobs.", 30)>>
          [] mode = "skip_nocache" ->
                <<P("Scraping is skipped but no cached data exists. Ask the user what to do.", 71)>>)
    \o (IF warn
        THEN <<P(" WARNING: No user profile or resume found - scoring will not work.", 66)>>
        ELSE <<>>)

\* Lines 624-625: the decision parsed from the reasoning text, unless the
\* reasoning call itself let an exception out.
Decide(rr) ==
    IF rr.raised # "none"
    THEN [raised |-> rr.raised, action |-> "", params |-> Dict(EmptyDict)]
    ELSE parse_response(rr.response)

\* Line 640: the human is asked before the tool runs.
Prompted(dec) ==
    /\ dec.raised = "none"
    /\ dec.action # "finish"
    /\ dec.action \in ToolNames
    /\ NeedsApproval(dec.action)

\* Lines 646-651.
Declined(dec, ans) == Prompted(dec) /\ ~Approved(ans)

\* Lines 633 and 653: a handler is called.
Runs(dec, ans) ==
    /\ dec.raised = "none"
    /\ dec.action = "finish" \/ (dec.action \in ToolNames /\ ~Declined(dec, ans))

Act(dec, st, ans, out, reply) ==
    IF Runs(dec, ans)
    THEN Invoke(dec.action, st, dec.params, out, Normalize(reply), Strip(reply))
    ELSE Returned(st, <<>>)

\* The observation with lines 641-647 left out.
ObservationOfHandler(dec, ans, res) == CutObservation(res.obs)

\* Lines 641-655: the observation of the pass.
Observation(dec, ans, res) ==
    CutObservation(
        IF dec.action \notin ToolNames
        THEN <<P("Unknown tool: ", 14), P("<action>", 5),
               P(". Available tools: ", 19), P("<tool names>", 211)>>
        ELSE IF Declined(dec, ans)
        THEN <<P("User declined to run ", 21), Word(dec.action), P(".", 1)>>
        ELSE res.obs)

Raised(dec, res) == IF dec.raised # "none" THEN dec.raised ELSE res.raised

\* kind: "crash" an exception escaped, "finish" the break at line 637,
\* "declined", or "act" a handler returned or the tool was unknown.
Kind(dec, ans, res) ==
    IF Raised(dec, res) # "none" THEN "crash"
    ELSE IF dec.action = "finish" THEN "finish"
    ELSE IF Declined(dec, ans) THEN "declined"
    ELSE "act"

\* Lines 660 and 661 in the other order.
AppendedObservationFirst(sent, it, rr, dec, ans, res) ==
    IF Kind(dec, ans, res) \in {"crash", "finish"} THEN sent
    ELSE sent \o <<Msg(2 * (it + 1) + 1, "user",
                       <<P("Observation: ", 13)>> \o Observation(dec, ans, res)),
                   Msg(2 * (it + 1), "assistant", rr.response)>>

\* Lines 659-661: the two turns appended, unless the pass left the loop.
Appended(sent, it, rr, dec, ans, res) ==
    IF Kind(dec, ans, res) \in {"crash", "finish"} THEN sent
    ELSE sent \o <<Msg(2 * (it + 1), "assistant", rr.response),
                   Msg(2 * (it + 1) + 1, "user",
                       <<P("Observation: ", 13)>> \o Observation(dec, ans, res))>>

\* What one pass did.
Pass(sent, it, llm, ans, out, rr, dec, res) ==
    [kind |-> Kind(dec, ans, res),
     raised |-> Raised(dec, res),
     sent |-> sent,
     called |-> TRUE,
     failed |-> llm.failed,
     response |-> rr.response,
     action |-> dec.action,
     params |-> dec.params,
     prompted |-> Prompted(dec),
     answer |-> ans,
     invoked |-> IF Runs(dec, ans) THEN dec.action ELSE "none",
     out |-> out,
     observation |-> Observation(dec, ans, res),
     st |-> res.st,
     msgs |-> Appended(sent, it, rr, dec, ans, res),
     fresh |-> TRUE,
     llm |-> llm]

Acted(sent, st, it, llm, ans, out, reply, rr, dec) ==
    Pass(sent, it, llm, ans, out, rr, dec, Act(dec, st, ans, out, reply))

Decided(sent, st, it, llm, ans, out, reply, rr) ==
    Acted(sent, st, it, llm, ans, out, reply, rr, Decide(rr))

\* One pass through the loop body, lines 606-666, given what the reasoning
\* engine (llm), the human (ans, reply) and the invoked stage (out) do.
Body(msgs, st, it, llm, ans, out, reply) ==
    Decided(RefreshSystem(truncate_messages(msgs), st), st, it, llm, ans, out,
            reply, Reason(llm))
-----------------------------------------------------------------------------
(* The variables of a part that a specification does not run *)

NoCall == [seq |-> 0, name |-> "", params |-> Dict(EmptyDict), out |-> Items(0), typed |-> <<>>]

\* The handlers of a specification that calls none on its own.
ToolsIdle ==
    /\ hst = AgentState(FALSE, FALSE)
    /\ hcall = NoCall
    /\ hres = Returned(hst, <<>>)
    /\ hpc = "idle"

NoCooldowns == [n \in {} |-> 0]
NoResult == Ended("none", "")
NoStep == Step("none", "", 0, 0, 0, "", NoHeader)

\* The failover engine of a specification that makes no call.
FailoverIdle ==
    /\ now = 0
    /\ keys = {}
    /\ behaviour = [n \in {} |-> ""]
    /\ cooldowns = NoCooldowns
    /\ fpc = "off"
    /\ ncalls = 0
    /\ start = 0
    /\ last_failed = ""
    /\ cur = ""
    /\ attempt = 0
    /\ result = NoResult
    /\ flast = NoStep
    /\ cd0 = NoCooldowns
    /\ requested = {}
    /\ failed = {}
-----------------------------------------------------------------------------
(* The loop under a scripted environment.  For the first MaxFree passes the *)
(* reasoning engine, the human and the pipeline stages choose freely; from  *)
(* then on each repeats what it did in the pass before, and what the human  *)
(* types at a check-in is short.                                            *)

MaxFree == 2
MaxItems == 1

Resp(name, json) ==
    <<LblAction, Space, Word(name), Newline, LblInput, Space, json>>

\* A check_in decision behind 4000 characters of thought.
LongCheckIn ==
    <<P("Thought:", 8), Space, P("x", 4000), Newline>> \o Resp("check_in", JsonEmptyObj)

Responses ==
    {Resp("finish", JsonSummary), Resp("finish", JsonList),
     Resp("scrape_jobs", JsonEmptyObj), Resp("parse_jobs", JsonEmptyObj),
     LongCheckIn, <<LblAction, Space, Word("bogus")>>,
     <<LblInput, Space, JsonDeep>>}

LlmChoices ==
    {[failed |-> TRUE, response |-> <<>>]}
    \cup {[failed |-> FALSE, response |-> r] : r \in Responses}

NoAnswer == <<>>
Answers == {<<P("Y", 1), Space>>, <<P("yes", 3)>>, <<P("n", 1)>>}
\* What the human types at a check-in: a word, or 5000 characters.
ShortReply == <<P("ok", 2)>>
LongReply == <<P("y", 5000)>>
Replies == {ShortReply, LongReply}

AllItems == {Items(n) : n \in 0..MaxItems}

Outcomes(name) ==
    CASE name \in {"scrape_jobs", "analyze_jobs", "generate_documents", "score_jobs"} ->
            AllItems \cup {StageRaises}
      [] name \in {"parse_jobs", "select_jobs"} -> AllItems \cup {StageRaises, IoFails}
      [] name = "list_applications" -> AllItems \cup {IoFails}
      [] name \in {"check_in", "finish"} -> {Items(0)}
      [] OTHER -> {Items(1), StageRaises, IoFails}

Decision(llm) == Decide(Reason(llm))

\* The human answers only when asked.
AnswersFor(d) == IF Prompted(d) THEN Answers ELSE {NoAnswer}

\* A stage has an outcome only when it runs.
OutcomesFor(d, ans) ==
    IF Runs(d, ans) /\ d.action \in ToolNames THEN Outcomes(d.action) ELSE {Items(0)}

NoPass ==
    [kind |-> "none", raised |-> "none", sent |-> <<>>, called |-> FALSE,
     failed |-> FALSE, response |-> <<>>, action |-> "", params |-> Dict(EmptyDict),
     prompted |-> FALSE, answer |-> NoAnswer, invoked |-> "none", out |-> Items(0),
     observation |-> <<>>, st |-> AgentState(FALSE, FALSE), msgs |-> <<>>,
     fresh |-> FALSE, llm |-> [failed |-> FALSE, response |-> <<>>]]

Snapshot == [state |-> state, messages |-> messages, iteration |-> iteration, calls |-> calls]

Init ==
    /\ \E has_profile \in BOOLEAN, mode \in {"force", "cached"} :
         /\ state = [AgentState(has_profile, FALSE) EXCEPT
                        !.jobs_scraped = IF mode = "cached" THEN MaxItems ELSE 0]
         /\ messages =
              <<Msg(0, "system", build_system_prompt(AgentState(has_profile, FALSE))),
                Msg(1, "user", InitialContext(mode, MaxItems, ~has_profile))>>
    /\ pc = "loop"
    /\ iteration = 0
    /\ calls = 0
    /\ exit = "none"
    /\ last = NoPass
    /\ before = [state |-> state, messages |-> messages, iteration |-> 0, calls |-> 0]
    /\ text = <<>>
    /\ parsed = NotParsed
    /\ ppc = "idle"
    /\ conv = <<>>
    /\ bounded = <<>>
    /\ tpc = "idle"
    /\ ToolsIdle
    /\ FailoverIdle

\* One pass through the loop body, lines 606-666.  The break at line 637
\* leaves the loop ("finished"); an escaping exception leaves run_agent, and
\* nothing after the loop runs ("crashed"); otherwise the loop goes round.
LoopBody ==
    /\ pc = "loop"
    /\ iteration < MAX_ITERATIONS
    /\ \E llm \in (IF iteration < MaxFree THEN LlmChoices ELSE {last.llm}) :
         \E ans \in (IF iteration < MaxFree THEN AnswersFor(Decision(llm)) ELSE {last.answer}) :
           \E out \in (IF iteration < MaxFree THEN OutcomesFor(Decision(llm), ans) ELSE {last.out}) :
             \E reply \in (IF iteration < MaxFree THEN Replies ELSE {ShortReply}) :
               last' = Body(messages, state, iteration, llm, ans, out, reply)
    /\ state' = last'.st
    /\ messages' = last'.msgs
    /\ pc' = CASE last'.kind = "finish" -> "finished"
                [] last'.kind = "crash" -> "crashed"
                [] OTHER -> "loop"
    /\ exit' = CASE last'.kind = "finish" -> "finish"
                  [] last'.kind = "crash" -> "exception"
                  [] OTHER -> "none"
    /\ before' = Snapshot
    /\ calls' = calls + 1
    /\ iteration' = iteration + 1
    /\ UNCHANGED <<pvars, tvars, hvars, fvars>>

\* The for loop is exhausted: the else clause at line 668.
CapReached ==
    /\ pc = "loop"
    /\ iteration = MAX_ITERATIONS
    /\ pc' = "capped"
    /\ exit' = "cap"
    /\ last' = [last EXCEPT !.fresh = FALSE]
    /\ UNCHANGED <<iteration, state, messages, calls, before, pvars, tvars, hvars, fvars>>

\* Lines 671-677: the final state summary is printed and run_agent returns.
Summary ==
    /\ pc \in {"finished", "capped"}
    /\ pc' = "returned"
    /\ last' = [last EXCEPT !.fresh = FALSE]
    /\ UNCHANGED <<iteration, state, messages, calls, exit, before, pvars, tvars, hvars, fvars>>

Next == LoopBody \/ CapReached \/ Summary

Spec == Init /\ [][Next]_vars

\* The loop variables of a specification that does not run the loop.
LoopIdle ==
    /\ pc = "idle"
    /\ iteration = 0
    /\ state = AgentState(FALSE, FALSE)
    /\ messages = <<>>
    /\ calls = 0
    /\ exit = "none"
    /\ last = NoPass
    /\ before = [state |-> state, messages |-> <<>>, iteration |-> 0, calls |-> 0]

-----------------------------------------------------------------------------
(* The parser on its own: every text of at most MaxTextLen pieces *)

MaxTextLen == 5

LongText == P("x", 350)

Alphabet ==
    {LblAction, LblInput, Newline, Word("finish"), Word("bogus"),
     JsonEmptyObj, JsonList, JsonDeep, LongText}

\* The texts of n pieces.
Texts(n) == [1..n -> Alphabet]

InitParse ==
    /\ \E n \in 0..MaxTextLen : text \in Texts(n)
    /\ parsed = NotParsed
    /\ ppc = "input"
    /\ conv = <<>>
    /\ bounded = <<>>
    /\ tpc = "idle"
    /\ LoopIdle
    /\ ToolsIdle
    /\ FailoverIdle

Parse ==
    /\ ppc = "input"
    /\ parsed' = parse_response(text)
    /\ ppc' = "parsed"
    /\ UNCHANGED <<text, tvars, lvars, hvars, fvars>>

NextParse == Parse

SpecParse == InitParse /\ [][NextParse]_vars

-----------------------------------------------------------------------------
(* The context manager on its own: every conversation of at most MaxConv   *)
(* turns whose contents have one of the sizes below                        *)

MaxConv == 8

Sizes == {50, 5950, 6000}

TurnRole(i, first) ==
    IF i = 1 THEN first ELSE IF i % 2 = 0 THEN "user" ELSE "assistant"

\* The conversations of n turns.
Convs(n) ==
    {[i \in 1..n |-> Msg(i, TurnRole(i, first), <<P("x", sz[i])>>)] :
        sz \in [1..n -> Sizes], first \in {"system", "user"}}

InitTrunc ==
    /\ \E n \in 0..MaxConv : conv \in Convs(n)
    /\ bounded = <<>>
    /\ tpc = "input"
    /\ text = <<>>
    /\ parsed = NotParsed
    /\ ppc = "idle"
    /\ LoopIdle
    /\ ToolsIdle
    /\ FailoverIdle

Truncate ==
    /\ tpc = "input"
    /\ bounded' = truncate_messages(conv)
    /\ tpc' = "bounded"
    /\ UNCHANGED <<conv, pvars, lvars, hvars, fvars>>

NextTrunc == Truncate

SpecTrunc == InitTrunc /\ [][NextTrunc]_vars

-----------------------------------------------------------------------------
(* The failover engine on its own: MaxCalls calls of _call_with_failover in *)
(* one process, against providers that each answer in a fixed way          *)

MaxConfigured == 2
MaxCalls == 2

\* The seconds a request takes to come back.
Latency == 1

\* time.time() when the process starts.
Epoch == 1000

\* The seconds the caller lets pass between two calls.
Gaps == {0, 45}

\* The ways a provider answers every request; one that recovers is rate
\* limited at its first request and answers with text from then on.
Modes == {"ok", "rate", "rate400", "ratedate", "conn", "api", "empty", "recovers"}

OutcomesOf(m, hasFailed) ==
    CASE m = "ok" -> {Outcome("ok", NoHeader)}
      [] m = "rate" -> {Outcome("rate", NoHeader)}
      [] m = "rate400" -> {Outcome("rate", 400)}
      [] m = "ratedate" -> {Outcome("rate", HttpDate)}
      [] m = "conn" -> {Outcome("conn", NoHeader)}
      [] m = "api" -> {Outcome("api", NoHeader)}
      [] m = "empty" -> {Outcome("empty", NoHeader)}
      [] OTHER -> IF hasFailed THEN {Outcome("ok", NoHeader)} ELSE {Outcome("rate", NoHeader)}

InitLLM ==
    /\ now = Epoch
    /\ keys \in {k \in SUBSET PROVIDERS : Cardinality(k) <= MaxConfigured}
    /\ behaviour \in [keys -> Modes]
    /\ cooldowns = NoCooldowns
    /\ fpc = "idle"
    /\ ncalls = 0
    /\ start = 0
    /\ last_failed = ""
    /\ cur = ""
    /\ attempt = 0
    /\ result = NoResult
    /\ flast = NoStep
    /\ cd0 = NoCooldowns
    /\ requested = {}
    /\ failed = {}
    /\ text = <<>>
    /\ parsed = NotParsed
    /\ ppc = "idle"
    /\ conv = <<>>
    /\ bounded = <<>>
    /\ tpc = "idle"
    /\ LoopIdle
    /\ ToolsIdle

\* Lines 211-224: the call begins, or ends at once for want of a credential.
Begin ==
    /\ fpc = "idle"
    /\ ncalls < MaxCalls
    /\ \E gap \in (IF ncalls = 0 THEN {0} ELSE Gaps) : now' = now + gap
    /\ ncalls' = ncalls + 1
    /\ cd0' = cooldowns
    /\ requested' = {}
    /\ IF get_available_providers(keys) = <<>>
       THEN /\ fpc' = "idle"
            /\ result' = Ended("unconfigured", "")
            /\ flast' = Step("raise", "", now', 0, 0, "unconfigured", NoHeader)
            /\ UNCHANGED <<start, last_failed>>
       ELSE /\ fpc' = "loop"
            /\ result' = NoResult
            /\ flast' = Step("begin", "", now', 0, 0, "", NoHeader)
            /\ start' = now'
            /\ last_failed' = ""
    /\ UNCHANGED <<keys, behaviour, cooldowns, cur, attempt, failed>>
    /\ UNCHANGED <<pvars, tvars, lvars, hvars>>

\* Line 236 in the current state.
Chosen == next_available_provider(keys, cooldowns, last_failed, now)

\* Lines 226-245: the budget check, the selection and the sleep before the tries.
Select ==
    /\ fpc = "loop"
    /\ IF Elapsed(now, start) > MAX_WAIT_TOTAL
       THEN /\ fpc' = "idle"
            /\ result' = Ended("exhausted", "")
            /\ flast' = Step("raise", "", now, 0, 0, "exhausted", NoHeader)
            /\ UNCHANGED <<now, cur, attempt>>
       ELSE IF Chosen = NoProvider
       THEN /\ fpc' = "idle"
            /\ result' = Ended("unconfigured", "")
            /\ flast' = Step("raise", "", now, 0, 0, "unconfigured", NoHeader)
            /\ UNCHANGED <<now, cur, attempt>>
       ELSE /\ fpc' = "try"
            /\ cur' = Chosen.name
            /\ attempt' = 0
            /\ now' = now + SleepBefore(Chosen.wait)
            /\ flast' = Step("select", Chosen.name, now, SleepBefore(Chosen.wait),
                             CooldownOf(cooldowns, Chosen.name), "", NoHeader)
            /\ UNCHANGED result
    /\ UNCHANGED <<keys, behaviour, cooldowns, ncalls, start, last_failed, cd0, requested, failed>>
    /\ UNCHANGED <<pvars, tvars, lvars, hvars>>

\* The engine once a request issued now has come back with o after d seconds.
After(o, d) == Handle(Engine(now + d, cooldowns, last_failed, attempt, fpc, result), cur, o)

\* Lines 257-292: one request to the selected provider and what follows from
\* its answer, up to the next request, the next selection or the return.
Attempt ==
    /\ fpc = "try"
    /\ \E o \in OutcomesOf(behaviour[cur], cur \in failed), d \in {Latency} :
        /\ flast' = Step("request", cur, now, 0, CooldownOf(cooldowns, cur), o.kind, o.header)
        /\ failed' = IF o.kind = "ok" THEN failed ELSE failed \cup {cur}
        /\ now' = After(o, d).now
        /\ cooldowns' = After(o, d).cooldowns
        /\ last_failed' = After(o, d).last_failed
        /\ attempt' = After(o, d).attempt
        /\ fpc' = After(o, d).fpc
        /\ result' = After(o, d).result
    /\ requested' = requested \cup {cur}
    /\ UNCHANGED <<keys, behaviour, ncalls, start, cur, cd0>>
    /\ UNCHANGED <<pvars, tvars, lvars, hvars>>

NextLLM == Begin \/ Select \/ Attempt

SpecLLM == InitLLM /\ [][NextLLM]_vars

\* A call in progress keeps running: its sleeps end and its requests come back.
SpecLLMLive == SpecLLM /\ WF_vars(Select) /\ WF_vars(Attempt)
-----------------------------------------------------------------------------
(* The handlers on their own: up to MaxInvocations calls in a row on one    *)
(* AgentState, as the loop makes them once the human has agreed            *)

MaxInvocations == 3

\* The parameter bags a handler is called with: empty, with the key it
\* reads, and a decoded value that is no mapping.
ParamsFor(name) ==
    {Dict(EmptyDict), NonDict("list")}
    \cup (CASE name \in {"read_file", "evaluate_document"} -> {Dict([path |-> <<P("a.md", 4)>>])}
            [] name = "propose_filter_changes" -> {Dict([changes |-> <<P("{}", 2)>>])}
            [] name = "finish" -> {Dict([summary |-> <<P("s", 1)>>])}
            [] OTHER -> {})

\* What the human types when a handler asks.
TypedFor(name) ==
    CASE name = "propose_filter_changes" -> {<<P("Y", 1), Space>>, <<P("n", 1)>>}
      [] name = "check_in" -> {<<P("ok", 2)>>}
      [] OTHER -> {<<>>}

\* The AgentState at line 606 of a new run: the scrape count is that of the cache.
InitialStates ==
    {[AgentState(has_profile, resume) EXCEPT !.jobs_scraped = n] :
        has_profile \in BOOLEAN, resume \in BOOLEAN, n \in 0..MaxItems}

InitTools ==
    /\ hst \in InitialStates
    /\ hcall = NoCall
    /\ hres = Returned(hst, <<>>)
    /\ hpc = "ready"
    /\ text = <<>>
    /\ parsed = NotParsed
    /\ ppc = "idle"
    /\ conv = <<>>
    /\ bounded = <<>>
    /\ tpc = "idle"
    /\ LoopIdle
    /\ FailoverIdle

\* Line 653: TOOLS[action]["fn"](state, params).  An exception that escapes
\* the handler ends the run.
Call ==
    /\ hpc = "ready"
    /\ hcall.seq < MaxInvocations
    /\ \E name \in ToolNames :
        \E params \in ParamsFor(name), out \in Outcomes(name), typed \in TypedFor(name) :
            /\ hcall' = [seq |-> hcall.seq + 1, name |-> name, params |-> params,
                         out |-> out, typed |-> typed]
            /\ hres' = Invoke(name, hst, params, out, Normalize(typed), Strip(typed))
    /\ hst' = hres'.st
    /\ hpc' = IF hres'.raised = "none" THEN "ready" ELSE "raised"
    /\ UNCHANGED <<pvars, tvars, lvars, fvars>>

NextTools == Call

SpecTools == InitTools /\ [][NextTools]_vars
-----------------------------------------------------------------------------
(* Claims about parse_response, checked under SpecParse *)

(* C1: for a text from which no registered name can be extracted (no      *)
(* "Action:" label, or an unregistered token after it) parse_response     *)
(* raises nothing and returns check_in, with a message that carries the   *)
(* text (here: at least its first 300 characters, after the fixed         *)
(* preamble), and never another operation.                                *)
C1_MalformedFallsBackToCheckIn ==
    (ppc = "parsed" /\ ~InTools(ActionMatch(text))) =>
        /\ parsed.raised = "none"
        /\ parsed.action = "check_in"
        /\ IsDict(parsed.params)
        /\ HasKey(parsed.params, "message")
        /\ parsed.params.d["message"] = <<FallbackPrefix>> \o Take(text, 300)

-----------------------------------------------------------------------------
(* Claims about run_agent, checked under Spec *)

\* The answer the prompt "Proceed with <action>? (y/n)" asks for.
Affirmative(ans) == Normalize(ans) = <<P("y", 1)>>

(* C2: the handler of an approval-required operation is invoked in a pass *)
(* only if the human was asked in that pass and answered affirmatively;   *)
(* after any other answer the pass is a decline and invokes no handler.   *)
C2_ApprovalGate ==
    last.fresh =>
        /\ (last.invoked \in ToolNames /\ last.invoked # "finish"
                /\ NeedsApproval(last.invoked)) =>
              (last.prompted /\ Affirmative(last.answer))
        /\ (last.prompted /\ ~Affirmative(last.answer)) =>
              (last.kind = "declined" /\ last.invoked = "none")

\* scrape_jobs ran after the answer "Y ", and a pass declined after "yes".
C2_Witness ==
    /\ last.fresh
    /\ last.invoked = "scrape_jobs"
    /\ last.prompted
    /\ last.answer = <<P("Y", 1), Space>>
    /\ last.out = Items(1)
    /\ state.jobs_scraped = 1
    /\ before.state.jobs_scraped # 1

(* C3: a declined pass leaves every counter, the report flag and the      *)
(* errors list as they were, and appends to the conversation sent to the  *)
(* reasoning engine the reasoning text and exactly one observation turn,  *)
(* which says that the operation was declined.                            *)
C3_DeclineChangesNothing ==
    (last.fresh /\ last.kind = "declined") =>
        /\ state = before.state
        /\ Len(messages) = Len(last.sent) + 2
        /\ SubSeq(messages, 1, Len(last.sent)) = last.sent
        /\ messages[Len(messages) - 1].role = "assistant"
        /\ messages[Len(messages) - 1].content = last.response
        /\ messages[Len(messages)].role = "user"
        /\ messages[Len(messages)].content =
              <<P("Observation: ", 13), P("User declined to run ", 21),
                Word(last.action), P(".", 1)>>

\* scrape_jobs was declined with "yes" in the second pass, after a pass that
\* recorded an error.
C3_Witness ==
    /\ last.fresh
    /\ last.kind = "declined"
    /\ last.action = "scrape_jobs"
    /\ last.answer = <<P("yes", 3)>>
    /\ iteration = 2
    /\ Len(state.errors) = 1

(* C4: when the decision of a pass is finish, the loop ends in that pass  *)
(* as finished: one reasoning call, only the finish handler invoked, no   *)
(* turn appended, no counter changed.                                     *)
C4_FinishEndsTheLoop ==
    (last.fresh /\ last.action = "finish") =>
        /\ pc = "finished"
        /\ exit = "finish"
        /\ last.invoked = "finish"
        /\ calls = before.calls + 1
        /\ messages = last.sent
        /\ state = before.state

(* C5: a run in which no pass decides finish makes exactly MAX_ITERATIONS *)
(* passes, one reasoning call each, and then stops at the cap, never      *)
(* earlier.                                                               *)
C5_NeverFinishRunsToTheCap ==
    (pc # "loop" /\ last.action # "finish") =>
        /\ exit = "cap"
        /\ iteration = MAX_ITERATIONS
        /\ calls = MAX_ITERATIONS

(* C6: the loop is left only through a finish decision or the cap, and    *)
(* the final summary follows: the run never ends in another way.          *)
C6_LeavesOnlyByFinishOrCap ==
    /\ pc # "loop" => exit \in {"finish", "cap"}
    /\ pc \in {"finished", "capped", "returned", "loop"}

(* C7: an invoked handler returns an observation and lets no exception    *)
(* out, whatever the parameter bag and whatever its files or stage do.    *)
C7_HandlersNeverRaise ==
    (last.fresh /\ last.invoked # "none") => last.raised = "none"

(* C8: when the reasoning call of a pass fails, the loop goes on: the     *)
(* pass decides check_in with the question how to proceed, the handler    *)
(* asks the human, and the iteration counter advances by one.             *)
C8_ReasoningFailureChecksIn ==
    (last.fresh /\ last.failed) =>
        /\ pc = "loop"
        /\ last.kind = "act"
        /\ last.action = "check_in"
        /\ last.invoked = "check_in"
        /\ last.params =
              Dict([message |->
                    <<P("My reasoning LLM hit an error. How should I proceed?", 52)>>])
        /\ iteration = before.iteration + 1
        /\ calls = before.calls + 1

\* The reasoning call failed in the second pass and the human's reply was
\* appended.
C8_Witness ==
    /\ last.fresh
    /\ last.failed
    /\ iteration = 2
    /\ pc = "loop"
    /\ messages[Len(messages)].content =
          <<P("Observation: ", 13), P("User responded: ", 16), P("ok", 2)>>

(* C11: at every reasoning call the conversation handed to the reasoning  *)
(* engine has a total content length of at most MAX_CONTEXT_CHARS.        *)
C11_ReasoningInputWithinBudget ==
    (last.fresh /\ last.called) => TotalChars(last.sent) <= MAX_CONTEXT_CHARS

(* C18: at every reasoning call the first turn of the conversation is the *)
(* system turn and its content is the prompt built from the AgentState as *)
(* it is at that moment.                                                  *)
C18_SystemTurnIsCurrent ==
    (last.fresh /\ last.called) =>
        /\ last.sent # <<>>
        /\ last.sent[1].role = "system"
        /\ last.sent[1].content = build_system_prompt(before.state)

\* A third reasoning call made after a compaction, by when a scrape has
\* changed the count and a failed stage has recorded an error.
C18_Witness ==
    /\ last.fresh
    /\ last.called
    /\ iteration >= 3
    /\ before.state.jobs_scraped = 1
    /\ Len(before.state.errors) = 1
    /\ Len(last.sent) < Len(before.messages)
    /\ last.sent[1].content = build_system_prompt(before.state)
    /\ last.sent[1].content # build_system_prompt(AgentState(before.state.has_profile, FALSE))

-----------------------------------------------------------------------------
(* Claims about truncate_messages, checked under SpecTrunc *)

(* C9: a conversation whose total content length does not exceed the       *)
(* character budget comes back from truncate_messages unchanged: the same  *)
(* turns in the same order.                                                *)
C9_WithinBudgetUnchanged ==
    (tpc = "bounded" /\ TotalChars(conv) <= MAX_CONTEXT_CHARS) => bounded = conv

\* A three-turn conversation that fills the budget exactly has been bounded.
C9_Witness ==
    /\ tpc = "bounded"
    /\ Len(conv) >= 3
    /\ TotalChars(conv) = MAX_CONTEXT_CHARS
    /\ bounded = conv

(* C10: a conversation over the budget that opens with the system turn     *)
(* comes back strictly shorter in total content length, with the input's   *)
(* first turn first and the input's last 6 turns last.                     *)
C10_OverBudgetShrinks ==
    (tpc = "bounded" /\ TotalChars(conv) > MAX_CONTEXT_CHARS
        /\ conv[1].role = "system") =>
        /\ TotalChars(bounded) < TotalChars(conv)
        /\ bounded[1] = conv[1]
        /\ LastTurns(bounded, 6) = LastTurns(conv, 6)

\* A call that began with a in cooldown and the healthy b out of cooldown, a and
\* b being the only providers with a credential.
RoutedPast(a, b) ==
    /\ ncalls > 0
    /\ a # b
    /\ keys = {a, b}
    /\ behaviour[b] = "ok"
    /\ start < CooldownOf(cd0, a)
    /\ start >= CooldownOf(cd0, b)

\* C12: a call that starts with configured provider A in cooldown, configured
\* healthy provider B out of cooldown and the others without a credential sends
\* its requests to B only, returns B's text, and leaves A's available-again
\* timestamp as the call found it.
C12_RoutesToHealthyProvider ==
    \A a \in PROVIDERS, b \in PROVIDERS :
        RoutedPast(a, b) =>
            /\ requested \subseteq {b}
            /\ a \in DOMAIN cooldowns /\ cooldowns[a] = cd0[a]
            /\ fpc = "idle" => result = Ended("text", b)

C12_Witness ==
    /\ RoutedPast("sambanova", "cerebras")
    /\ fpc = "idle"
    /\ result = Ended("text", "cerebras")
    /\ requested = {"cerebras"}
    /\ cooldowns["sambanova"] = cd0["sambanova"]

\* One provider has a credential, and its every request fails to connect.
OnlyConn == \E p \in PROVIDERS : keys = {p} /\ behaviour[p] = "conn"

\* C13: with a single configured provider whose every request fails with a
\* connection error, a call that has begun eventually raises the exhaustion
\* error, and it ends in no other way and at no moment at which the time since
\* the call began does not exceed MAX_WAIT_TOTAL.
C13_SingleFailingProviderExhausts ==
    /\ [](OnlyConn /\ flast.kind = "raise" =>
            flast.outcome = "exhausted" /\ flast.at - start > MAX_WAIT_TOTAL)
    /\ [](OnlyConn => result.kind \in {"none", "exhausted"})
    /\ (OnlyConn /\ fpc = "loop") ~> (fpc = "idle" /\ result.kind = "exhausted")

C13_Witness ==
    /\ OnlyConn
    /\ fpc = "idle"
    /\ result.kind = "exhausted"
    /\ flast.kind = "raise"
    /\ now - start > MAX_WAIT_TOTAL
    /\ Cardinality(requested) = 1

\* C14: no request is issued once the time since the call began exceeds
\* MAX_WAIT_TOTAL, whatever cooldowns the providers advertise.
C14_NoRequestPastBudget ==
    flast.kind = "request" => flast.at - start <= MAX_WAIT_TOTAL

\* A provider with a credential answers every request with text.
HasHealthy == \E p \in keys : behaviour[p] = "ok"

\* C15: if a configured provider answers requests with text, a call that has
\* begun eventually returns text and never ends in the exhaustion error,
\* however the other configured providers fail.
C15_HealthyProviderIsReached ==
    /\ [](HasHealthy => result.kind # "exhausted")
    /\ (HasHealthy /\ fpc = "loop") ~> (fpc = "idle" /\ result.kind = "text")

\* C16: when no provider has a credential, a call raises the
\* no-providers-configured error at once: the call is over at the moment it
\* began, no request was issued, and the cooldown map is as the call found it.
C16_NoCredentialRaisesAtOnce ==
    (keys = {} /\ ncalls > 0) =>
        /\ fpc = "idle"
        /\ result = Ended("unconfigured", "")
        /\ flast = Step("raise", "", now, 0, 0, "unconfigured", NoHeader)
        /\ requested = {}
        /\ cooldowns = cd0

C16_Witness ==
    /\ keys = {}
    /\ ncalls = MaxCalls
    /\ result = Ended("unconfigured", "")
    /\ requested = {}
    /\ now > Epoch

\* C19: every key of the cooldown map is a provider of the catalogue, and an
\* entry is made or changed only by a step in which a request issued to that
\* provider came back with a failure.
C19_CooldownKeysAreFailedProviders ==
    /\ [](DOMAIN cooldowns \subseteq PROVIDERS /\ DOMAIN cooldowns \subseteq failed)
    /\ [][\A p \in DOMAIN cooldowns' :
            (p \notin DOMAIN cooldowns \/ cooldowns'[p] # cooldowns[p]) =>
                /\ flast'.kind = "request"
                /\ flast'.to = p
                /\ flast'.outcome \in {"rate", "conn", "api"}]_vars

C19_Witness ==
    /\ DOMAIN cooldowns = {"cerebras", "gemini"}
    /\ failed = {"cerebras", "gemini"}
    /\ flast.kind = "request"
    /\ flast.to = "gemini"
    /\ cooldowns["gemini"] = now + ApiCooldown

\* C20: no request is issued to a provider whose available-again timestamp
\* lies in the future, in the call that set it or in a later one, and a
\* rate-limit response ends the tries of the provider at once: the request next
\* after it follows a new selection.
C20_NoRequestDuringCooldown ==
    /\ [](flast.kind = "request" => flast.until <= flast.at)
    /\ [][(flast'.kind = "request" /\ flast'.outcome = "rate") =>
            /\ fpc' = "loop"
            /\ last_failed' = flast'.to
            /\ cooldowns'[flast'.to] > now']_vars

C20_Witness ==
    /\ flast.kind = "request"
    /\ flast.outcome = "rate"
    /\ flast.until > Epoch
    /\ flast.at = flast.until + 2
    /\ ncalls = 2
    /\ Cardinality(keys) = 2

Counts ==
    {"jobs_scraped", "jobs_parsed", "jobs_scored", "jobs_selected", "jobs_analyzed",
     "jobs_generated"}

\* C17: no invocation of a handler lowers a stage count of the AgentState,
\* a repeated stage with a smaller or empty result included.
C17_CountsNeverDecrease ==
    [][\A c \in Counts : hst'[c] >= hst[c]]_vars

\* The latest step is a request that came back with a rate limit.
RateLimitStep == flast.kind = "request" /\ flast.outcome = "rate"

\* C21 as stated: on a rate limit the provider's available-again timestamp is
\* the current time plus the seconds the response advertises, or plus the
\* provider's default cooldown when it advertises none, and the provider is the
\* just-failed one.
C21_CooldownIsAdvertisedOrDefault ==
    RateLimitStep =>
        /\ flast.header = NoHeader => cooldowns[flast.to] = now + DEFAULT_COOLDOWN[flast.to]
        /\ flast.header >= 0 => cooldowns[flast.to] = now + flast.header
        /\ last_failed = flast.to

\* C21 amended: the timestamp is the current time plus the advertised seconds
\* plus one second; the default cooldown is used when the response has no
\* retry-after header and also when the header holds no number (a date).  The
\* provider is then the just-failed one and the selection starts again.
C21_CooldownIsAdvertisedPlusOneOrDefault ==
    RateLimitStep =>
        /\ flast.header \in {NoHeader, HttpDate} =>
              cooldowns[flast.to] = now + DEFAULT_COOLDOWN[flast.to]
        /\ flast.header >= 0 => cooldowns[flast.to] = now + flast.header + 1
        /\ last_failed = flast.to
        /\ fpc = "loop"

C21_Witness ==
    /\ RateLimitStep
    /\ flast.header = 400
    /\ flast.to = "groq"
    /\ cooldowns["groq"] = now + 401
    /\ last_failed = "groq"

C21_WitnessDate ==
    /\ RateLimitStep
    /\ flast.header = HttpDate
    /\ cooldowns[flast.to] = now + DEFAULT_COOLDOWN[flast.to]

\* The latest step is a selection; the cooldown map and the just-failed
\* provider are still those the selection saw, flast.at is its time.
SelectStep == flast.kind = "select"

Priority(p) == CHOOSE i \in DOMAIN PRIORITY_ORDER : PRIORITY_ORDER[i] = p

\* The configured providers other than the just-failed one that were out of
\* cooldown at the selection.
OthersReady ==
    {p \in keys \ {last_failed} : p \notin DOMAIN cooldowns \/ cooldowns[p] <= flast.at}

\* C22: the just-failed provider is selected only when every other configured
\* provider is in cooldown; otherwise the selection is the highest-priority
\* configured provider other than the just-failed one that is out of cooldown,
\* with no wait.
C22_JustFailedGoesLast ==
    SelectStep =>
        /\ flast.to \in keys
        /\ flast.to = last_failed => OthersReady = {}
        /\ OthersReady # {} =>
              /\ flast.to \in OthersReady
              /\ \A q \in OthersReady : Priority(flast.to) <= Priority(q)
              /\ flast.slept = 0
              /\ now = flast.at

C22_Witness ==
    /\ SelectStep
    /\ last_failed \in keys
    /\ cooldowns[last_failed] <= flast.at
    /\ flast.to # last_failed
    /\ Priority(last_failed) < Priority(flast.to)

C22_WitnessJustFailed ==
    /\ SelectStep
    /\ Cardinality(keys) = 2
    /\ flast.to = last_failed
    /\ OthersReady = {}

\* Every configured provider was in cooldown at the selection.
AllCooling == \A p \in keys : p \in DOMAIN cooldowns /\ cooldowns[p] > flast.at

\* C23: when every configured provider is in cooldown, the selected provider
\* has the earliest available-again timestamp of the configured providers, and
\* the engine sleeps at least the rest of that cooldown (the rest plus 2 s)
\* before it issues the request.
C23_SoonestIsAwaited ==
    (SelectStep /\ AllCooling) =>
        /\ \A q \in keys : cooldowns[flast.to] <= cooldowns[q]
        /\ flast.slept >= cooldowns[flast.to] - flast.at
        /\ flast.slept = cooldowns[flast.to] - flast.at + 2
        /\ now = flast.at + flast.slept
        /\ fpc = "try" /\ cur = flast.to /\ attempt = 0

C23_Witness ==
    /\ SelectStep
    /\ AllCooling
    /\ \E q \in keys :
          /\ cooldowns[q] > cooldowns[flast.to]
          /\ Priority(q) < Priority(flast.to)
          /\ q # last_failed
    /\ now >= cooldowns[flast.to]

\* The latest step is the last try of a provider, failed on a connection or
\* an API error.
OutOfRetries == flast.kind = "request" /\ flast.outcome \in {"conn", "api"} /\ fpc = "loop"

\* C24: a provider out of retries on connection or API errors is placed in a
\* cooldown strictly shorter than its default rate-limit cooldown, whichever
\* provider of the catalogue it is, and is the just-failed provider of the
\* selection that follows.
C24_ErrorCooldownIsShorter ==
    OutOfRetries =>
        /\ cooldowns[flast.to] > now
        /\ cooldowns[flast.to] - now < DEFAULT_COOLDOWN[flast.to]
        /\ last_failed = flast.to

\* C25: a request that succeeds ends the call with the text of the provider
\* that served, with no sleep after the answer, and the step changes no entry
\* of the cooldown map; when it is the first request of the call, the map is
\* the one the call found.
C25_SuccessLeavesCooldownsAlone ==
    [][(flast'.kind = "request" /\ flast'.outcome = "ok") =>
        /\ cooldowns' = cooldowns
        /\ fpc' = "idle"
        /\ result' = Ended("text", flast'.to)
        /\ now' = flast'.at + Latency
        /\ (requested = {} /\ fpc = "try") => cooldowns' = cd0']_vars

C25_Witness ==
    /\ flast.kind = "request"
    /\ flast.outcome = "ok"
    /\ flast.at = start
    /\ result = Ended("text", flast.to)
    /\ flast.to \in DOMAIN cooldowns
    /\ cooldowns = cd0

\* The reasoning output of the latest pass names an operation that is not in
\* the registry.
NamesUnknown ==
    /\ last.fresh /\ last.called /\ ~last.failed
    /\ ActionMatch(last.response) # <<>>
    /\ ~InTools(ActionMatch(last.response))

\* C26: a pass whose reasoning output names an unregistered operation invokes
\* no handler, asks the human nothing, leaves the AgentState as it was and
\* appends an observation saying that the operation is unknown; the loop goes on.
C26_UnknownOperationIsReported ==
    NamesUnknown =>
        /\ last.invoked = "none"
        /\ ~last.prompted
        /\ state = before.state
        /\ last.observation # <<>> /\ last.observation[1] = P("Unknown tool: ", 14)
        /\ pc = "loop"

\* The latest pass went round the loop: it neither finished nor let an
\* exception escape.
WentRound == last.fresh /\ last.called /\ last.kind \in {"act", "declined"}

\* What the reasoning call of the latest pass gave the loop.
ResponseOfPass == IF last.llm.failed THEN FallbackResponse ELSE last.llm.response

\* C27: a pass that does not end the loop leaves the conversation it sent to
\* the reasoning engine followed by exactly two turns: an assistant turn with
\* the reasoning response of the pass, then a user turn with its observation,
\* whether the operation ran, was declined or was the fallback after a
\* reasoning failure.
C27_TwoTurnsPerPass ==
    WentRound =>
        /\ Len(messages) = Len(last.sent) + 2
        /\ \A i \in 1..Len(last.sent) : messages[i] = last.sent[i]
        /\ messages[Len(messages) - 1].role = "assistant"
        /\ messages[Len(messages) - 1].content = ResponseOfPass
        /\ messages[Len(messages)].role = "user"
        /\ messages[Len(messages)].content = <<P("Observation: ", 13)>> \o last.observation
        /\ TotalChars(before.messages) <= MAX_CONTEXT_CHARS =>
              Len(messages) = Len(before.messages) + 2

C27_Witness ==
    /\ WentRound
    /\ last.kind = "declined"
    /\ iteration = 2
    /\ Len(messages) = 6
    /\ messages[6].content = <<P("Observation: ", 13)>> \o last.observation

C27_WitnessFallback ==
    /\ WentRound
    /\ last.llm.failed
    /\ messages[Len(messages) - 1].content = FallbackResponse

C27_WitnessRan ==
    /\ WentRound
    /\ last.invoked = "scrape_jobs"
    /\ last.out = Items(1)

C27_WitnessCompacted ==
    /\ WentRound
    /\ Len(messages) <= Len(before.messages)

\* C28: the parameter bag parse_response returns is a mapping for every text:
\* never a list, a string, a number or null.
C28_ParamsAreAMapping ==
    (ppc = "parsed" /\ parsed.raised = "none") => IsDict(parsed.params)

\* C29: every conversation handed to the reasoning engine holds exactly one
\* system-role turn, and that turn is the first one.
C29_OneSystemTurnFirst ==
    (last.fresh /\ last.called) =>
        /\ last.sent # <<>>
        /\ last.sent[1].role = "system"
        /\ \A i \in 2..Len(last.sent) : last.sent[i].role # "system"

\* The assistant turns of a conversation.
Decisions(msgs) == {i \in 1..Len(msgs) : msgs[i].role = "assistant"}

\* C30: in every conversation handed to the reasoning engine each assistant
\* turn is immediately followed by the user turn that holds the observation
\* of the same iteration; compaction never separates the two.
C30_DecisionKeepsItsObservation ==
    (last.fresh /\ last.called) =>
        \A i \in Decisions(last.sent) :
            /\ i < Len(last.sent)
            /\ last.sent[i + 1].role = "user"
            /\ last.sent[i + 1].id = last.sent[i].id + 1
            /\ Len(last.sent[i + 1].content) >= 1
            /\ last.sent[i + 1].content[1] = P("Observation: ", 13)

\* A compacted conversation that still holds three decisions.
C30_Witness ==
    /\ last.fresh
    /\ last.called
    /\ Len(last.sent) < Len(before.messages)
    /\ Cardinality(Decisions(last.sent)) = 3
    /\ last.sent[2] = TrimNotice

====
